---- MODULE Spec2Model ----
(***************************************************************************)
(* State-machine model of the threaded TCP port scanner src/minscanner.py: *)
(* main() resolves the target, starts one scan thread per port of          *)
(* range(start, end + 1) in batches of `threads`, joins them and prints    *)
(* the completion line; scan() connects, and on success takes print_lock,  *)
(* grabs a banner over a second socket and prints the open-port line.      *)
(***************************************************************************)
EXTENDS Integers, Sequences, FiniteSets, TLC

\* ---------------------------------------------------------------- bounds
\* Ports of the model are 0..MaxPort.
MaxPort == 3
\* --threads values of the model are MinThreads..MaxThreads.
MaxThreads == 2

Ports == 0..MaxPort
MinThreads == 0 - 1
ThreadLimits == MinThreads..MaxThreads
\* --timeout is type=int: a negative one, zero and the default 1.
Timeouts == {0 - 1, 0, 1}
\* The timeouts a scan can connect with: the default and a longer one.
PositiveTimeouts == {1, 2}
\* What banner_grab can return: "" (nothing usable) or a non-empty banner.
Banners == {"", "SSH-2.0"}

\* The most elements a document given to extract_from_html has.
MaxElems == 2

\* Names are kept as sequences of pieces: a run of letters, a hyphen or an
\* underscore. <<"my", "-", "widget">> is my-widget.
TagNames ==
    {<<"div">>, <<"my", "-", "widget">>, <<"my", "_", "el", "-", "x">>}
AttrNames ==
    {<<"custom", "-", "attr">>, <<"data", "-", "info">>,
     <<"aria", "-", "label">>, <<"DATA", "-", "info">>,
     <<"x", "_", "data", "-", "y">>}
\* How an attribute is written: name="v", name='v', or the bare name.
Forms == {"dq", "sq", "none"}
Attrs == [name : AttrNames, form : Forms]
Elements == [tag : TagNames, attrs : {{}} \cup {{a} : a \in Attrs}]
\* The documents: the start tags of at most MaxElems elements, in order.
Docs == UNION {[1..n -> Elements] : n \in 0..MaxElems}

\* The most requests the web front-end handles.
MaxRequests == 3
Requests == 1..MaxRequests

VARIABLES
    start,        \* args.start
    end,          \* args.end
    threads,      \* args.threads
    timeout,      \* args.timeout
    mainpc,       \* position of main()
    port,         \* loop variable of `for port in range(...)`
    thread_list,  \* main's thread_list, as the ports of its threads
    joinIdx,      \* position of the `for t in thread_list: t.join()` loops
    pc,           \* pc[p]: position of the scan thread of port p
    started,      \* started[p]: how many threads were started for port p
    sock,         \* sock[p]: scan's socket s is open
    bsock,        \* bsock[p]: banner_grab's socket s is open
    print_lock,   \* the set of threads holding print_lock ({} = free)
    result,       \* result[p]: what connect_ex gave in scan
    banner,       \* banner[p]: the local `banner` of scan
    exit,         \* exit[p]: how the scan call of port p ended
    connects,     \* connects[p]: connections initiated to port p
    opened,       \* opened[p]: sockets created by the probe of port p
    closed,       \* closed[p]: sockets closed by the probe of port p
    btimeout,     \* btimeout[p]: the timeout set on banner_grab's socket
    dnsQueries,   \* calls of socket.gethostbyname
    stdout,       \* the lines printed, in order
    exitcode,     \* exit status of the process (NoExit while main runs)
    html,         \* the argument of extract_from_html
    haveBs4,      \* ctf_scanner.BeautifulSoup is not None
    epc,          \* position of extract_from_html
    elIdx,        \* position of `for el in soup.find_all(True)`
    tags_set,     \* the local tags_set
    attrs_set,    \* the local attrs_set
    info,         \* what extract_from_html returned
    STATUS,       \* web_ui.STATUS ("error" stands for 'error: ...')
    SCAN_THREAD,  \* web_ui.SCAN_THREAD: the request that made it (0 = None)
    wpc,          \* wpc[i]: position of the thread started by request i
    handled,      \* requests index() has handled
    lastRequest,  \* what the last request was
    argvHasInput  \* sys.argv of the server process carries a valid -i option

vars == <<start, end, threads, timeout, mainpc, port, thread_list, joinIdx,
          pc, started, sock, bsock, print_lock, result, banner, exit,
          connects, opened, closed, btimeout, dnsQueries, stdout, exitcode,
          html, haveBs4, epc, elIdx, tags_set, attrs_set, info,
          STATUS, SCAN_THREAD, wpc, handled, lastRequest, argvHasInput>>

\* The state of tools/web_ui.py, which the other programs never touch.
webVars == <<STATUS, SCAN_THREAD, wpc, handled, lastRequest, argvHasInput>>

\* web_ui.py as imported and never used.
WebIdle ==
    /\ STATUS = "idle"
    /\ SCAN_THREAD = 0
    /\ wpc = [i \in Requests |-> "none"]
    /\ handled = 0
    /\ lastRequest = "none"
    /\ argvHasInput = FALSE

\* The state of tools/ctf_scanner.py, which minscanner.py never touches.
extractVars == <<html, haveBs4, epc, elIdx, tags_set, attrs_set, info>>

argVars == <<start, end, threads, timeout>>
mainVars == <<mainpc, port, thread_list, joinIdx, dnsQueries, exitcode>>

NoExit == 0 - 1

\* info before extract_from_html has returned.
NoInfo == [tags |-> {}, attrs |-> {}]

\* btimeout[p] before banner_grab has set a timeout: socket's default, None.
NoTimeout == 0 - 1

\* The ports of range(args.start, args.end + 1).
PortRange == {p \in Ports : start <= p /\ p <= end}

OpenLine(p, b) == [line |-> "open", port |-> p, banner |-> b]
HeaderLine == [line |-> "header", port |-> 0, banner |-> ""]
CompletedLine == [line |-> "completed", port |-> 0, banner |-> ""]

\* A scan thread that was started and has not ended.
InFlight(p) == pc[p] \notin {"idle", "finished"}

\* ------------------------------------------------------------------ Init
\* The state after parse_args() with --timeout one of ts: any int for the
\* other options, nothing started.
Parsed(ts) ==
    /\ start \in Ports
    /\ end \in Ports
    /\ threads \in ThreadLimits
    /\ timeout \in ts
    /\ mainpc = "resolve"
    /\ port = start
    /\ thread_list = <<>>
    /\ joinIdx = 1
    /\ pc = [p \in Ports |-> "idle"]
    /\ started = [p \in Ports |-> 0]
    /\ sock = [p \in Ports |-> FALSE]
    /\ bsock = [p \in Ports |-> FALSE]
    /\ print_lock = {}
    /\ result = [p \in Ports |-> "none"]
    /\ banner = [p \in Ports |-> ""]
    /\ exit = [p \in Ports |-> "none"]
    /\ connects = [p \in Ports |-> 0]
    /\ opened = [p \in Ports |-> 0]
    /\ closed = [p \in Ports |-> 0]
    /\ btimeout = [p \in Ports |-> NoTimeout]
    /\ dnsQueries = 0
    /\ stdout = <<>>
    /\ exitcode = NoExit
    /\ html = <<>>
    /\ haveBs4 = FALSE
    /\ epc = "idle"
    /\ elIdx = 1
    /\ tags_set = {}
    /\ attrs_set = {}
    /\ info = NoInfo
    /\ WebIdle

Init == Parsed(Timeouts)

\* The runs with a positive --timeout.
TimeoutInit == Parsed(PositiveTimeouts)

threadVars == <<pc, started, sock, bsock, print_lock, result, banner, exit,
                connects, opened, closed, btimeout>>

\* The socket counters and banner timeout of the probes.
sockVars == <<opened, closed, btimeout>>

\* ------------------------------------------------------------------ main
\* Resolve with the gaierror caught and main returning quietly: exit 0.
ResolveSwallowingFailure ==
    /\ mainpc = "resolve"
    /\ dnsQueries' = dnsQueries + 1
    /\ \/ /\ mainpc' = "loop"
          /\ stdout' = Append(stdout, HeaderLine)
          /\ exitcode' = exitcode
       \/ /\ mainpc' = "failed"
          /\ stdout' = stdout
          /\ exitcode' = 0
    /\ UNCHANGED <<webVars, extractVars, argVars, port, thread_list, joinIdx, threadVars>>

\* target_ip = socket.gethostbyname(args.target), then the four header
\* prints; an unresolvable name raises socket.gaierror out of main.
Resolve ==
    /\ mainpc = "resolve"
    /\ dnsQueries' = dnsQueries + 1
    /\ \/ /\ mainpc' = "loop"
          /\ stdout' = Append(stdout, HeaderLine)
          /\ exitcode' = exitcode
       \/ /\ mainpc' = "failed"
          /\ stdout' = stdout
          /\ exitcode' = 1
    /\ UNCHANGED <<webVars, extractVars, argVars, port, thread_list, joinIdx, threadVars>>

\* The loop written as range(args.start, args.end): the last port is lost.
LoopContinuesExclusive == port < end

\* `for port in range(args.start, args.end + 1)`: there is a next port.
LoopContinues == port <= end

\* A limit test that takes a limit below 1 as no limit at all.
BatchFullPositiveLimitOnly(list) == threads >= 1 /\ Len(list) >= threads

\* A limit test that lets one thread more into the batch.
BatchFullOneLate(list) == Len(list) > threads

\* `if len(thread_list) >= args.threads`, on the list after the append.
BatchFull(list) == Len(list) >= threads

\* Lines 52-57: create the thread of `port`, append it, start it, and test
\* the thread count.
Dispatch ==
    /\ mainpc = "loop"
    /\ LoopContinues
    /\ started' = [started EXCEPT ![port] = @ + 1]
    /\ pc' = [pc EXCEPT ![port] = "socket"]
    /\ thread_list' = Append(thread_list, port)
    /\ port' = port + 1
    /\ joinIdx' = 1
    /\ mainpc' = IF BatchFull(thread_list') THEN "join_batch" ELSE "loop"
    /\ UNCHANGED <<webVars, extractVars, argVars, sock, bsock, print_lock, result, banner, exit,
                   connects, sockVars, dnsQueries, stdout, exitcode>>

\* A join that returns without waiting for its thread to end.
JoinBatchNoWait ==
    /\ mainpc = "join_batch"
    /\ joinIdx <= Len(thread_list)
    /\ joinIdx' = joinIdx + 1
    /\ UNCHANGED <<webVars, extractVars, argVars, mainpc, port, thread_list, threadVars,
                   dnsQueries, stdout, exitcode>>

\* Lines 58-59: t.join() returns once the thread has ended.
JoinBatch ==
    /\ mainpc = "join_batch"
    /\ joinIdx <= Len(thread_list)
    /\ pc[thread_list[joinIdx]] = "finished"
    /\ joinIdx' = joinIdx + 1
    /\ UNCHANGED <<webVars, extractVars, argVars, mainpc, port, thread_list, threadVars,
                   dnsQueries, stdout, exitcode>>

\* Line 60: thread_list = [], and back to the for loop.
BatchDone ==
    /\ mainpc = "join_batch"
    /\ joinIdx > Len(thread_list)
    /\ thread_list' = <<>>
    /\ joinIdx' = 1
    /\ mainpc' = "loop"
    /\ UNCHANGED <<webVars, extractVars, argVars, port, threadVars, dnsQueries, stdout, exitcode>>

\* The for loop is exhausted: on to `for t in thread_list: t.join()`.
LoopExit ==
    /\ mainpc = "loop"
    /\ ~LoopContinues
    /\ mainpc' = "join_rest"
    /\ joinIdx' = 1
    /\ UNCHANGED <<webVars, extractVars, argVars, port, thread_list, threadVars, dnsQueries,
                   stdout, exitcode>>

\* Lines 63-64: join the remaining threads.
JoinRest ==
    /\ mainpc = "join_rest"
    /\ joinIdx <= Len(thread_list)
    /\ pc[thread_list[joinIdx]] = "finished"
    /\ joinIdx' = joinIdx + 1
    /\ UNCHANGED <<webVars, extractVars, argVars, mainpc, port, thread_list, threadVars,
                   dnsQueries, stdout, exitcode>>

\* Line 66: print the scan-completed line; main returns, exit status 0.
Complete ==
    /\ mainpc = "join_rest"
    /\ joinIdx > Len(thread_list)
    /\ mainpc' = "done"
    /\ stdout' = Append(stdout, CompletedLine)
    /\ exitcode' = 0
    /\ UNCHANGED <<webVars, extractVars, argVars, port, thread_list, joinIdx, threadVars, dnsQueries>>

\* main() installs no signal handler and has no try block: a SIGINT raises
\* KeyboardInterrupt in the main thread wherever it is (lines 44-64), main
\* ends with a traceback (its frame and locals are gone), and the threads
\* already started run on.
Interrupt ==
    /\ mainpc \in {"resolve", "loop", "join_batch", "join_rest"}
    /\ mainpc' = "interrupted"
    /\ thread_list' = <<>>
    /\ joinIdx' = 1
    /\ exitcode' = 1
    /\ UNCHANGED <<webVars, extractVars, argVars, port, threadVars, dnsQueries, stdout>>

\* ------------------------------------------------------------------ scan
\* What s.connect_ex((ip, port)) can give under s.settimeout(timeout):
\* timeout 0 makes the socket non-blocking, so the call returns EINPROGRESS
\* at once; nothing listens on TCP port 0.
ConnectOutcomes(p) ==
    IF timeout = 0 THEN {"inprogress"}
    ELSE IF p = 0 THEN {"refused"}
    ELSE {"open", "refused", "timeout"}

\* Lines 22-24 (and 30-33 on failure): s = socket.socket() and
\* s.settimeout(timeout). settimeout raises ValueError for a negative value,
\* which `except: pass` swallows. When socket() itself raises, s is unbound
\* in `finally: s.close()`, and that UnboundLocalError leaves scan.
ScanSocket(p) ==
    /\ pc[p] = "socket"
    /\ \/ /\ sock' = [sock EXCEPT ![p] = TRUE]
          /\ opened' = [opened EXCEPT ![p] = @ + 1]
          /\ pc' = [pc EXCEPT ![p] = IF timeout < 0 THEN "close" ELSE "connect"]
          /\ exit' = exit
       \/ /\ sock' = sock
          /\ opened' = opened
          /\ pc' = [pc EXCEPT ![p] = "finished"]
          /\ exit' = [exit EXCEPT ![p] = "raised"]
    /\ UNCHANGED <<webVars, extractVars, argVars, mainVars, started, bsock, print_lock, result,
                   banner, connects, closed, btimeout, stdout>>

\* A scan that grabs the banner whatever connect_ex returned.
AfterConnectAlwaysGrab(r) == "acquire"

\* Where scan goes after `result = s.connect_ex(...)`: line 26.
AfterConnect(r) == IF r = "open" THEN "acquire" ELSE "close"

\* Line 25.
ScanConnect(p) ==
    /\ pc[p] = "connect"
    /\ \E r \in ConnectOutcomes(p) :
          /\ result' = [result EXCEPT ![p] = r]
          /\ pc' = [pc EXCEPT ![p] = AfterConnect(r)]
    /\ connects' = [connects EXCEPT ![p] = @ + 1]
    /\ UNCHANGED <<webVars, extractVars, argVars, mainVars, started, sock, bsock, print_lock,
                   banner, exit, sockVars, stdout>>

\* A with statement that never waits.
LockAlwaysFree == TRUE

\* `with print_lock:` can be entered.
LockFree == print_lock = {}

\* Line 27: acquire print_lock.
ScanAcquire(p) ==
    /\ pc[p] = "acquire"
    /\ LockFree
    /\ print_lock' = print_lock \cup {p}
    /\ pc' = [pc EXCEPT ![p] = "bg_socket"]
    /\ UNCHANGED <<webVars, extractVars, argVars, mainVars, started, sock, bsock, result, banner,
                   exit, connects, sockVars, stdout>>

\* A lock that is not given back when the with block is left.
ReleasedNever(p) == print_lock

\* print_lock after thread p leaves the with block.
Released(p) == print_lock \ {p}

\* A banner_grab that takes over the timeout of the scan.
BannerTimeoutOfScan(t) == t

\* banner_grab(ip, port) is not passed scan's timeout: line 12 is
\* s.settimeout(1), whatever args.timeout (t) is.
BannerTimeout(t) == 1

\* Lines 11-12 of banner_grab, called at line 28 under the lock. When
\* socket() raises, `except: return ""` runs, then `finally: s.close()`
\* raises UnboundLocalError in place of the return; it leaves the with
\* block (releasing the lock) and is swallowed by scan's `except: pass`,
\* so line 29 is skipped.
BannerSocket(p) ==
    /\ pc[p] = "bg_socket"
    /\ \/ /\ bsock' = [bsock EXCEPT ![p] = TRUE]
          /\ opened' = [opened EXCEPT ![p] = @ + 1]
          /\ btimeout' = [btimeout EXCEPT ![p] = BannerTimeout(timeout)]
          /\ pc' = [pc EXCEPT ![p] = "bg_connect"]
          /\ print_lock' = print_lock
       \/ /\ bsock' = bsock
          /\ opened' = opened
          /\ btimeout' = btimeout
          /\ pc' = [pc EXCEPT ![p] = "close"]
          /\ print_lock' = Released(p)
    /\ UNCHANGED <<webVars, extractVars, argVars, mainVars, started, sock, result, banner, exit,
                   connects, closed, stdout>>

\* Line 13: s.connect((ip, port)) raises on refusal or timeout, and then
\* `except: return ""`.
BannerConnect(p) ==
    /\ pc[p] = "bg_connect"
    /\ connects' = [connects EXCEPT ![p] = @ + 1]
    /\ \/ /\ pc' = [pc EXCEPT ![p] = "bg_recv"]
          /\ banner' = banner
       \/ /\ pc' = [pc EXCEPT ![p] = "bg_close"]
          /\ banner' = [banner EXCEPT ![p] = ""]
    /\ UNCHANGED <<webVars, extractVars, argVars, mainVars, started, sock, bsock, print_lock,
                   result, exit, sockVars, stdout>>

\* Lines 14-17: s.recv(1024).decode().strip(); a timeout, a decode error,
\* an empty or all-blank read all give "".
BannerRecv(p) ==
    /\ pc[p] = "bg_recv"
    /\ \E b \in Banners : banner' = [banner EXCEPT ![p] = b]
    /\ pc' = [pc EXCEPT ![p] = "bg_close"]
    /\ UNCHANGED <<webVars, extractVars, argVars, mainVars, started, sock, bsock, print_lock,
                   result, exit, connects, sockVars, stdout>>

\* Lines 18-19: finally: s.close(), and banner_grab returns.
BannerClose(p) ==
    /\ pc[p] = "bg_close"
    /\ bsock' = [bsock EXCEPT ![p] = FALSE]
    /\ closed' = [closed EXCEPT ![p] = @ + 1]
    /\ pc' = [pc EXCEPT ![p] = "print"]
    /\ UNCHANGED <<webVars, extractVars, argVars, mainVars, started, sock, print_lock, result,
                   banner, exit, connects, opened, btimeout, stdout>>

\* A print whose line lands before the lines already written.
ScanPrintAtFront(p) ==
    /\ pc[p] = "print"
    /\ stdout' = <<OpenLine(p, banner[p])>> \o stdout
    /\ print_lock' = Released(p)
    /\ pc' = [pc EXCEPT ![p] = "close"]
    /\ UNCHANGED <<webVars, extractVars, argVars, mainVars, started, sock, bsock, result, banner,
                   exit, connects, sockVars>>

\* Line 29, and the end of the with block.
ScanPrint(p) ==
    /\ pc[p] = "print"
    /\ stdout' = Append(stdout, OpenLine(p, banner[p]))
    /\ print_lock' = Released(p)
    /\ pc' = [pc EXCEPT ![p] = "close"]
    /\ UNCHANGED <<webVars, extractVars, argVars, mainVars, started, sock, bsock, result, banner,
                   exit, connects, sockVars>>

\* A scan that returns without closing its socket.
ScanCloseLeak(p) ==
    /\ pc[p] = "close"
    /\ pc' = [pc EXCEPT ![p] = "finished"]
    /\ exit' = [exit EXCEPT ![p] = "returned"]
    /\ banner' = [banner EXCEPT ![p] = ""]
    /\ UNCHANGED <<webVars, extractVars, argVars, mainVars, started, sock, bsock, print_lock,
                   result, connects, sockVars, stdout>>

\* Lines 32-33: finally: s.close(); scan returns (its local `banner` is
\* gone) and the thread ends.
ScanClose(p) ==
    /\ pc[p] = "close"
    /\ sock' = [sock EXCEPT ![p] = FALSE]
    /\ closed' = [closed EXCEPT ![p] = @ + 1]
    /\ pc' = [pc EXCEPT ![p] = "finished"]
    /\ exit' = [exit EXCEPT ![p] = "returned"]
    /\ banner' = [banner EXCEPT ![p] = ""]
    /\ UNCHANGED <<webVars, extractVars, argVars, mainVars, started, bsock, print_lock, result,
                   connects, opened, btimeout, stdout>>

ThreadStep(p) ==
    \/ ScanSocket(p)
    \/ ScanConnect(p)
    \/ ScanAcquire(p)
    \/ BannerSocket(p)
    \/ BannerConnect(p)
    \/ BannerRecv(p)
    \/ BannerClose(p)
    \/ ScanPrint(p)
    \/ ScanClose(p)

MainStep ==
    \/ Resolve
    \/ Dispatch
    \/ JoinBatch
    \/ BatchDone
    \/ LoopExit
    \/ JoinRest
    \/ Complete

\* The steps of the program itself, no signal arriving.
Progress ==
    \/ MainStep
    \/ \E p \in Ports : ThreadStep(p)

Next ==
    \/ Progress
    \/ Interrupt

Spec == Init /\ [][Next]_vars

\* The runs no SIGINT stops. main and the scan threads are OS threads: while
\* one of them can take a step, a step is eventually taken.
FairSpec == Init /\ [][Progress]_vars /\ WF_vars(Progress)

\* The scanner run with a positive timeout, the default or a longer one.
TimeoutSpec == TimeoutInit /\ [][Next]_vars

\* ------------------------------------------- tools/ctf_scanner.py: extract
\* A piece is in the class [a-zA-Z0-9\-] of both regular expressions.
IsClassTok(t) == t # "_"

\* A piece is made of \w characters: letters, digits, underscore.
IsWordTok(t) == t # "-"

\* str.lower() on a piece.
LowerTok(t) == IF t = "DATA" THEN "data" ELSE t

\* str.lower() on a name; html.parser lower-cases tag and attribute names.
Lower(n) == [i \in DOMAIN n |-> LowerTok(n[i])]

\* '-' in name.
HasHyphen(n) == \E i \in DOMAIN n : n[i] = "-"

\* name.startswith(w + '-').
StartsWith(n, w) == Len(n) >= 2 /\ n[1] = w /\ n[2] = "-"

\* A filter that keeps every hyphenated attribute.
KeepAttrAnyHyphen(a) == HasHyphen(a)

\* Lines 166 and 178: '-' in a and not a.startswith('aria-') and not
\* a.startswith('data-').
KeepAttr(a) ==
    /\ HasHyphen(a)
    /\ ~StartsWith(a, "aria")
    /\ ~StartsWith(a, "data")

\* re.findall(r"<([a-zA-Z0-9\-]+)", html) on one start tag: the longest
\* run of class characters that follows '<'.
ClassPrefixLen(n) ==
    CHOOSE k \in 0..Len(n) :
        /\ \A i \in 1..k : IsClassTok(n[i])
        /\ k = Len(n) \/ ~IsClassTok(n[k + 1])

\* Lines 163-164: the hyphenated matches of the tag expression.
FallbackTags(doc) ==
    {t \in {SubSeq(doc[i].tag, 1, ClassPrefixLen(doc[i].tag)) : i \in DOMAIN doc} :
        t # <<>> /\ HasHyphen(t)}

\* \b before piece i of an attribute name; white space precedes the name.
WordBoundary(n, i) == IsWordTok(n[i]) # (i > 1 /\ IsWordTok(n[i - 1]))

\* Where r"\b([a-zA-Z0-9\-]+)=\"" can match inside a name that is followed
\* by =": at a word boundary from which only class characters follow.
MatchStarts(n) ==
    {i \in DOMAIN n : WordBoundary(n, i) /\ \A j \in i..Len(n) : IsClassTok(n[j])}

\* The match findall reports for one attribute: the leftmost one, and none
\* unless the name is followed by =" at once.
FindAttr(a) ==
    IF a.form = "dq" /\ MatchStarts(a.name) # {}
    THEN {SubSeq(a.name,
                 CHOOSE i \in MatchStarts(a.name) :
                     \A j \in MatchStarts(a.name) : i <= j,
                 Len(a.name))}
    ELSE {}

\* Lines 165-166: the matches of the attribute expression that are kept.
FallbackAttrs(doc) ==
    {m \in UNION {FindAttr(a) : a \in UNION {doc[i].attrs : i \in DOMAIN doc}} :
        KeepAttr(m)}

\* el.name of an element parsed by BeautifulSoup(html, "html.parser").
ElName(el) == Lower(el.tag)

\* el.attrs.keys(): every attribute, however written, lower-cased.
AttrKeys(el) == {Lower(a.name) : a \in el.attrs}

\* Lines 161-167: BeautifulSoup is None, the regular expressions are used.
\* sorted(...) gives lists; they are kept as the sets of their elements.
ExtractFallback ==
    /\ epc = "call"
    /\ ~haveBs4
    /\ info' = [tags |-> FallbackTags(html), attrs |-> FallbackAttrs(html)]
    /\ epc' = "returned"
    /\ UNCHANGED <<html, haveBs4, elIdx, tags_set, attrs_set>>

\* Lines 169-171: soup = BeautifulSoup(html, "html.parser"), empty sets.
ExtractParse ==
    /\ epc = "call"
    /\ haveBs4
    /\ tags_set' = {}
    /\ attrs_set' = {}
    /\ elIdx' = 1
    /\ epc' = "loop"
    /\ UNCHANGED <<html, haveBs4, info>>

\* Lines 173-179: one element of soup.find_all(True).
ExtractVisit ==
    /\ epc = "loop"
    /\ elIdx <= Len(html)
    /\ tags_set' = IF HasHyphen(ElName(html[elIdx]))
                   THEN tags_set \cup {Lower(ElName(html[elIdx]))}
                   ELSE tags_set
    /\ attrs_set' = attrs_set \cup {k \in AttrKeys(html[elIdx]) : KeepAttr(k)}
    /\ elIdx' = elIdx + 1
    /\ UNCHANGED <<html, haveBs4, epc, info>>

\* Lines 181-184.
ExtractReturn ==
    /\ epc = "loop"
    /\ elIdx > Len(html)
    /\ info' = [tags |-> tags_set, attrs |-> attrs_set]
    /\ epc' = "returned"
    /\ UNCHANGED <<html, haveBs4, elIdx, tags_set, attrs_set>>

\* A call extract_from_html(html) for any document, with bs4 installed or
\* not (lines 25-28); minscanner.py is not running.
ExtractInit ==
    /\ WebIdle
    /\ html \in Docs
    /\ haveBs4 \in BOOLEAN
    /\ epc = "call"
    /\ elIdx = 1
    /\ tags_set = {}
    /\ attrs_set = {}
    /\ info = NoInfo
    /\ start = 1
    /\ end = 1
    /\ threads = 1
    /\ timeout = 1
    /\ mainpc = "resolve"
    /\ port = start
    /\ thread_list = <<>>
    /\ joinIdx = 1
    /\ pc = [p \in Ports |-> "idle"]
    /\ started = [p \in Ports |-> 0]
    /\ sock = [p \in Ports |-> FALSE]
    /\ bsock = [p \in Ports |-> FALSE]
    /\ print_lock = {}
    /\ result = [p \in Ports |-> "none"]
    /\ banner = [p \in Ports |-> ""]
    /\ exit = [p \in Ports |-> "none"]
    /\ connects = [p \in Ports |-> 0]
    /\ opened = [p \in Ports |-> 0]
    /\ closed = [p \in Ports |-> 0]
    /\ btimeout = [p \in Ports |-> NoTimeout]
    /\ dnsQueries = 0
    /\ stdout = <<>>
    /\ exitcode = NoExit

ExtractNext ==
    /\ \/ ExtractFallback
       \/ ExtractParse
       \/ ExtractVisit
       \/ ExtractReturn
    /\ UNCHANGED <<argVars, mainVars, threadVars, stdout, webVars>>

ExtractSpec == ExtractInit /\ [][ExtractNext]_vars

\* ------------------------------------------------------- tools/web_ui.py
\* minscanner.py is not running and extract_from_html is not being called.
NothingElseRuns ==
    /\ start = 1
    /\ end = 1
    /\ threads = 1
    /\ timeout = 1
    /\ mainpc = "resolve"
    /\ port = start
    /\ thread_list = <<>>
    /\ joinIdx = 1
    /\ pc = [p \in Ports |-> "idle"]
    /\ started = [p \in Ports |-> 0]
    /\ sock = [p \in Ports |-> FALSE]
    /\ bsock = [p \in Ports |-> FALSE]
    /\ print_lock = {}
    /\ result = [p \in Ports |-> "none"]
    /\ banner = [p \in Ports |-> ""]
    /\ exit = [p \in Ports |-> "none"]
    /\ connects = [p \in Ports |-> 0]
    /\ opened = [p \in Ports |-> 0]
    /\ closed = [p \in Ports |-> 0]
    /\ btimeout = [p \in Ports |-> NoTimeout]
    /\ dnsQueries = 0
    /\ stdout = <<>>
    /\ exitcode = NoExit
    /\ html = <<>>
    /\ haveBs4 = FALSE
    /\ epc = "idle"
    /\ elIdx = 1
    /\ tags_set = {}
    /\ attrs_set = {}
    /\ info = NoInfo

\* Lines 18-19 and 49-50: the module globals when app.run() starts; the
\* command line of the server is whatever it was started with.
WebInit ==
    /\ STATUS = "idle"
    /\ SCAN_THREAD = 0
    /\ wpc = [i \in Requests |-> "none"]
    /\ handled = 0
    /\ lastRequest = "none"
    /\ argvHasInput \in BOOLEAN
    /\ NothingElseRuns

\* Lines 39-45: a POST whose urls field has something besides white space:
\* STATUS = 'queued', a new thread is made and started, redirect.
PostUrls ==
    /\ handled < MaxRequests
    /\ handled' = handled + 1
    /\ lastRequest' = "post_urls"
    /\ STATUS' = "queued"
    /\ SCAN_THREAD' = handled + 1
    /\ wpc' = [wpc EXCEPT ![handled + 1] = "started"]
    /\ UNCHANGED argvHasInput

\* Lines 39-41 and 46: a POST whose urls field is empty or white space
\* only: `if urls.strip()` is false, the page is rendered.
PostBlank ==
    /\ handled < MaxRequests
    /\ handled' = handled + 1
    /\ lastRequest' = "post_blank"
    /\ UNCHANGED <<STATUS, SCAN_THREAD, wpc, argvHasInput>>

\* Lines 39 and 46: a GET renders the page with STATUS.
Get ==
    /\ handled < MaxRequests
    /\ handled' = handled + 1
    /\ lastRequest' = "get"
    /\ UNCHANGED <<STATUS, SCAN_THREAD, wpc, argvHasInput>>

\* Lines 23-26 (and 32-33): import tools.ctf_scanner and write the URL
\* file; an ImportError or OSError is caught and becomes the status.
ScanPrepare(i) ==
    /\ wpc[i] = "started"
    /\ \/ /\ wpc' = [wpc EXCEPT ![i] = "prepared"]
          /\ STATUS' = STATUS
       \/ /\ wpc' = [wpc EXCEPT ![i] = "ended_error"]
          /\ STATUS' = "error"
    /\ UNCHANGED <<SCAN_THREAD, handled, lastRequest, argvHasInput>>

\* Line 27.
ScanSetRunning(i) ==
    /\ wpc[i] = "prepared"
    /\ STATUS' = "running"
    /\ wpc' = [wpc EXCEPT ![i] = "main"]
    /\ UNCHANGED <<SCAN_THREAD, handled, lastRequest, argvHasInput>>

\* How ctf_scanner.main() can end. main calls ap.parse_args() (ctf_scanner
\* line 448), which reads sys.argv: the main_args attribute set at line 28
\* is never read. Without the required -i on the server's command line
\* argparse calls sys.exit(2); otherwise main returns or raises.
MainOutcomes == IF argvHasInput THEN {"returned", "raised"} ELSE {"exited"}

\* What lines 30-33 make of an outcome of main: SystemExit is not an
\* Exception, so `except Exception` lets it through and the thread ends.
AfterMain(o) ==
    CASE o = "returned" -> "returned"
      [] o = "raised" -> "ended_error"
      [] o = "exited" -> "ended_exit"

\* Lines 28-30 (and 32-33).
ScanMain(i) ==
    /\ wpc[i] = "main"
    /\ \E o \in MainOutcomes :
          /\ wpc' = [wpc EXCEPT ![i] = AfterMain(o)]
          /\ STATUS' = IF o = "raised" THEN "error" ELSE STATUS
    /\ UNCHANGED <<SCAN_THREAD, handled, lastRequest, argvHasInput>>

\* Line 31.
ScanSetCompleted(i) ==
    /\ wpc[i] = "returned"
    /\ STATUS' = "completed"
    /\ wpc' = [wpc EXCEPT ![i] = "ended_completed"]
    /\ UNCHANGED <<SCAN_THREAD, handled, lastRequest, argvHasInput>>

\* A step of the background thread of request i: run_scan_background.
BackgroundStep(i) ==
    \/ ScanPrepare(i)
    \/ ScanSetRunning(i)
    \/ ScanMain(i)
    \/ ScanSetCompleted(i)

\* A step of some background thread.
BackgroundProgress ==
    /\ \E i \in Requests : BackgroundStep(i)
    /\ UNCHANGED <<argVars, mainVars, threadVars, stdout, extractVars>>

\* index() handles a request.
Request ==
    /\ \/ PostUrls
       \/ PostBlank
       \/ Get
    /\ UNCHANGED <<argVars, mainVars, threadVars, stdout, extractVars>>

WebNext ==
    \/ Request
    \/ BackgroundProgress

WebSpec == WebInit /\ [][WebNext]_vars

\* The background threads are OS threads: while one of them can take a
\* step, a step is eventually taken. Nothing makes a client send requests.
WebFairSpec == WebSpec /\ WF_vars(BackgroundProgress)
\* ---------------------------------------------------------------- output
\* The positions of stdout that hold the open-port line of port p.
OpenLinesOf(p) == {i \in DOMAIN stdout : stdout[i].line = "open" /\ stdout[i].port = p}

\* The ports some open-port line reports.
ReportedOpen == {p \in Ports : OpenLinesOf(p) # {}}

\* The ports reported as cancelled: the program prints no such line.
ReportedCancelled ==
    {stdout[i].port : i \in {j \in DOMAIN stdout : stdout[j].line = "cancelled"}}

\* The positions of the scan-completed line.
CompletedAt == {i \in DOMAIN stdout : stdout[i].line = "completed"}

\* main has ended, one way or another.
MainEnded == mainpc \in {"done", "failed", "interrupted"}

\* The configurations the data model admits: 1 <= start <= end, C >= 1, T > 0.
ValidConfig == start >= 1 /\ start <= end /\ threads >= 1 /\ timeout > 0

ProbesWithSocket == {p \in Ports : InFlight(p) /\ (sock[p] \/ bsock[p])}

\* C2: at no point of a run do more than C probes (scan threads started and
\* not yet finished) have an open socket at the same time, C being the value
\* of -t/--threads.
C2_AtMostCProbesHoldSocket ==
    ProbesWithSocket # {} => Cardinality(ProbesWithSocket) <= threads

\* C3: in a completed run the ports reported OPEN are exactly the ports of
\* [start, end] whose connect succeeded, each reported exactly once and
\* before the scan-completed line.
C3_OpenReportsAreTheOpenPorts ==
    (ValidConfig /\ mainpc = "done") =>
        \A p \in Ports :
            /\ (p \in PortRange /\ result[p] = "open") =>
                  /\ Cardinality(OpenLinesOf(p)) = 1
                  /\ \A i \in OpenLinesOf(p) : \A j \in CompletedAt : i < j
            /\ ~(p \in PortRange /\ result[p] = "open") => OpenLinesOf(p) = {}

\* C4: a probe's failure, whatever it is (failure to create the socket
\* included), never leaves the probe as an exception and never aborts the
\* run: every scan call returns normally, and a completed run has probed
\* every port of the range. Stated for the valid configurations.
C4_ProbeFailureNeverPropagates ==
    ValidConfig =>
        /\ \A p \in Ports : exit[p] # "raised"
        /\ mainpc = "done" => \A p \in PortRange : started[p] = 1

\* start = 0 or start > end.
InvalidRange == start = 0 \/ start > end

\* C5: with an invalid port range the run ends in a configuration error
\* (non-zero exit) and there is no network activity: no host resolution and
\* no probe.
C5_InvalidRangeIsRejected ==
    InvalidRange =>
        /\ dnsQueries = 0
        /\ \A p \in Ports : started[p] = 0 /\ connects[p] = 0
        /\ exitcode # 0

\* C6: with a thread limit below 1 or a timeout that is not positive the
\* run ends in a configuration error before dispatch: no probe thread is
\* started and no connection is attempted.
C6_InvalidLimitOrTimeoutIsRejected ==
    (threads < 1 \/ timeout <= 0) =>
        /\ \A p \in Ports : started[p] = 0 /\ connects[p] = 0
        /\ exitcode # 0

\* C7: once a stop signal has come during a run (dispatch had begun) and
\* the run has ended (main stopped, no probe left in flight), every port of
\* [start, end] is accounted for: probed, or reported as cancelled.
C7_StoppedRunAccountsForEveryPort ==
    (/\ ValidConfig
     /\ mainpc = "interrupted"
     /\ \E p \in Ports : started[p] > 0
     /\ \A p \in Ports : ~InFlight(p)) =>
        \A p \in PortRange : exit[p] # "none" \/ p \in ReportedCancelled
\* C8: every connect and banner read returning, every run (that no signal
\* stops) comes to its end for good: main reaches the scan-completed line,
\* or has failed to resolve the host before any dispatch, and no probe is
\* left in flight (none blocks forever, none waits forever for print_lock,
\* every join returns).
C8_EveryRunCompletes ==
    <>[](/\ mainpc = "done" \/ (mainpc = "failed" /\ \A p \in Ports : started[p] = 0)
         /\ \A p \in Ports : ~InFlight(p))

\* A completed run in which two open ports were reported (both went through
\* print_lock and the banner read) and another port timed out.
C8_Witness ==
    /\ mainpc = "done"
    /\ Cardinality(ReportedOpen) >= 2
    /\ \E p \in PortRange : result[p] = "timeout"

\* C9: a port whose connect succeeded and whose banner step gave nothing
\* (read timeout, empty read, any error in banner_grab) is reported OPEN
\* with an empty banner by the time its probe has left the report section
\* (and is about to close its socket and return).
C9_BannerFailureStillReportsOpen ==
    ValidConfig =>
        \A p \in Ports :
            (result[p] = "open" /\ banner[p] = "" /\ pc[p] = "close") =>
                \E i \in OpenLinesOf(p) : stdout[i].banner = ""

\* banner_grab is blocked on the network: in its connect or its recv.
InBannerIO(p) == pc[p] \in {"bg_connect", "bg_recv"}

\* C10: a probe whose connect succeeded reports at once: it never has to
\* wait, before its report, for the banner read of another port's probe.
C10_ReportWaitsForNoOtherProbe ==
    ValidConfig =>
        \A p, q \in Ports :
            (p # q /\ pc[p] = "acquire") => ~(q \in print_lock /\ InBannerIO(q))
\* C11: an unresolvable host fails the run before dispatch, with a non-zero
\* exit status and no probe thread started for any port; a run that
\* resolves and completes exits with status 0, whatever it found.
C11_UnresolvableHostFailsBeforeDispatch ==
    /\ mainpc = "failed" =>
          /\ exitcode # 0 /\ exitcode # NoExit
          /\ \A p \in Ports : started[p] = 0 /\ connects[p] = 0 /\ opened[p] = 0
    /\ mainpc = "done" => exitcode = 0

\* The resolution of the host of a run over a non-empty, valid range has
\* failed.
C11_Witness ==
    /\ mainpc = "failed"
    /\ ValidConfig
    /\ dnsQueries = 1
    /\ exitcode = 1
\* The probes in flight.
ProbesInFlight == {p \in Ports : InFlight(p)}

\* The ports of the threads in main's thread_list: the current batch.
CurrentBatch == {thread_list[i] : i \in DOMAIN thread_list}

OpenSockets(p) == (IF sock[p] THEN 1 ELSE 0) + (IF bsock[p] THEN 1 ELSE 0)

InBannerGrabWithSocket(p) == pc[p] \in {"bg_connect", "bg_recv", "bg_close"}

\* C15: banner_grab's socket exists only inside the banner_grab call and
\* scan's socket only inside the scan call, so a probe that has ended, by
\* return or by exception, has no socket open; and when the run is complete
\* no socket is open.
C15_SocketsClosedBeforeReturn ==
    /\ \A p \in Ports :
          /\ bsock[p] => InBannerGrabWithSocket(p)
          /\ sock[p] => InFlight(p)
          /\ pc[p] = "finished" => OpenSockets(p) = 0
    /\ mainpc = "done" => \A p \in Ports : OpenSockets(p) = 0

\* A complete run in which one probe closed two sockets after a banner
\* read, one closed its socket after a failed connect, and nothing is open.
C15_Witness ==
    /\ mainpc = "done"
    /\ \E p, q \in Ports :
          /\ closed[p] = 2 /\ result[p] = "open"
          /\ closed[q] = 1 /\ result[q] \in {"refused", "timeout"}
    /\ \A p \in Ports : OpenSockets(p) = 0
\* The probes whose banner_grab socket has its timeout set.
BannerReads == {p \in Ports : InBannerGrabWithSocket(p)}

\* C16 as stated: the timeout of a probe's banner read is the timeout T of
\* the run, for every T.
C16_BannerTimeoutIsT ==
    ValidConfig => \A p \in BannerReads : btimeout[p] = timeout

\* C16 as the code has it: the banner read always has a timeout of one
\* second; it equals T only when T is 1.
C16_BannerTimeoutIsOneSecond ==
    /\ \A p \in BannerReads : btimeout[p] = 1
    /\ \A p \in BannerReads : (btimeout[p] = timeout) <=> (timeout = 1)
    /\ \A p \in Ports : btimeout[p] \in {NoTimeout, 1}

\* A banner read under a run timeout of two seconds.
C16_Witness ==
    /\ ValidConfig
    /\ timeout = 2
    /\ \E p \in Ports : pc[p] = "bg_recv" /\ btimeout[p] = 1
\* Thread p is inside `with print_lock:` (lines 27-29): banner_grab and the
\* print of the open-port line.
InReportSection(p) ==
    pc[p] \in {"bg_socket", "bg_connect", "bg_recv", "bg_close", "print"}

\* The probes inside the report section.
Reporters == {p \in Ports : InReportSection(p)}

\* Thread p has executed the print of line 29.
HasPrinted(p) == pc[p] \in {"close", "finished"} /\ opened[p] = 2

\* C17: at most one probe is inside the report section, and it is the
\* holder of print_lock; a probe that has executed its print has exactly
\* one open-port line on stdout, and no other probe has any.
C17_SingleWriter ==
    /\ Cardinality(Reporters) <= 1
    /\ Reporters = print_lock
    /\ \A p \in Ports :
          Cardinality(OpenLinesOf(p)) = IF HasPrinted(p) THEN 1 ELSE 0
    /\ Cardinality({i \in DOMAIN stdout : stdout[i].line = "open"})
          = Cardinality({p \in Ports : HasPrinted(p)})

\* Two probes complete concurrently: one is about to print while the other
\* is held at the with statement.
C17_Witness ==
    \E p, q \in Ports :
        /\ p # q
        /\ pc[p] = "print"
        /\ pc[q] = "acquire"
        /\ ~ENABLED ScanAcquire(q)
\* The open-port line of q is on stdout before the open-port line of p.
ReportedBefore(q, p) ==
    \E i \in OpenLinesOf(q) : \E j \in OpenLinesOf(p) : i < j

\* C18: reports are delivered in the order in which the probes reach their
\* report step, whatever their ports: between a probe's entry into the
\* report section and its print no other probe's report is delivered, and a
\* report is delivered by appending the line of the probe that executes its
\* print, after every line delivered before.
C18_ReportsInCompletionOrder ==
    [][\A p \in Ports :
          /\ (p \in print_lock /\ p \in print_lock') =>
                \A q \in Ports : OpenLinesOf(q)' = OpenLinesOf(q)
          /\ OpenLinesOf(p)' # OpenLinesOf(p) =>
                /\ pc[p] = "print"
                /\ p \in print_lock
                /\ stdout' = Append(stdout, OpenLine(p, banner[p]))
                /\ \A q \in Ports \ {p} : OpenLinesOf(q)' = OpenLinesOf(q)]_vars

\* Two open ports p < q of one batch, q reported before p.
C18_Witness ==
    /\ ValidConfig
    /\ \E p, q \in CurrentBatch :
          /\ p < q
          /\ ReportedBefore(q, p)

\* Two open ports p < q of one batch, p reported before q.
C18_WitnessPortOrder ==
    /\ ValidConfig
    /\ \E p, q \in CurrentBatch :
          /\ p < q
          /\ ReportedBefore(p, q)
\* The sockets open in the whole process.
SocketsOpen ==
    Cardinality({p \in Ports : sock[p]}) + Cardinality({p \in Ports : bsock[p]})

\* C19: for C >= 1 at most C + 1 sockets are open at any time: at most C
\* connect sockets, and at most one banner_grab socket, since banner_grab
\* runs under print_lock.
C19_AtMostCPlusOneSockets ==
    threads >= 1 =>
        /\ Cardinality({p \in Ports : sock[p]}) <= threads
        /\ Cardinality({p \in Ports : bsock[p]}) <= 1
        /\ {p \in Ports : bsock[p]} \subseteq print_lock
        /\ SocketsOpen <= threads + 1

\* C + 1 sockets open at once: two connect sockets and a banner socket.
C19_Witness ==
    /\ threads = 2
    /\ SocketsOpen = 3
\* The number of threads main starts before it joins them: the test of
\* line 57 follows the append, so a list of one thread is full already when
\* args.threads is below 1.
BatchSize == IF threads >= 1 THEN threads ELSE 1

\* The batch port p is started in, counted from 0.
BatchOf(p) == (p - start) \div BatchSize

\* C20, the order of the batches: ports are started in increasing order, a
\* port of a later batch is started only when every probe of every earlier
\* batch has finished, and no report of a later batch precedes a report of
\* an earlier batch.
C20_BatchOrder ==
    \A p, q \in PortRange :
        /\ (p < q /\ started[q] >= 1) => started[p] >= 1
        /\ (BatchOf(p) < BatchOf(q) /\ started[q] >= 1) => pc[p] = "finished"
        /\ BatchOf(p) < BatchOf(q) => ~ReportedBefore(q, p)

\* C20 as stated: the batches are in that order and are batches of C
\* ports: main joins when C threads are started, never more, never fewer.
C20_ConsecutiveBatchesOfC ==
    /\ C20_BatchOrder
    /\ Len(thread_list) <= threads \/ thread_list = <<>>
    /\ mainpc = "join_batch" => Len(thread_list) = threads

\* C20 for the limits the data model admits.
C20_HoldsForValidLimit == threads >= 1 => C20_ConsecutiveBatchesOfC

\* A run of two batches with an open port in each, both reported.
C20_TwoBatchesReported ==
    /\ threads >= 1
    /\ mainpc = "done"
    /\ \E p, q \in PortRange :
          /\ BatchOf(p) < BatchOf(q)
          /\ ReportedBefore(p, q)
\* A name html.parser takes as is and the expressions can match whole: made
\* of class characters only, in lower case, beginning with a letter or digit.
PlainName(n) ==
    /\ \A i \in DOMAIN n : IsClassTok(n[i])
    /\ Lower(n) = n
    /\ IsWordTok(n[1])

\* The attribute name is one of the reserved families aria-* and data-*.
Reserved(k) == StartsWith(k, "aria") \/ StartsWith(k, "data")

\* The custom element names of the document.
CustomTags == {t \in {ElName(html[i]) : i \in DOMAIN html} : HasHyphen(t)}

\* The custom attribute names of the document.
CustomAttrs ==
    {k \in UNION {AttrKeys(html[i]) : i \in DOMAIN html} :
        HasHyphen(k) /\ ~Reserved(k)}

\* C12 as stated: for every document the returned record has the keys
\* 'tags' and 'attrs', 'tags' holds the name of every element with a hyphen
\* in its name, 'attrs' holds every hyphenated attribute name outside aria-*
\* and data-*, and no name of 'attrs' starts with aria- or data-.
C12_EveryCustomNameIsExtracted ==
    epc = "returned" =>
        /\ DOMAIN info = {"tags", "attrs"}
        /\ CustomTags \subseteq info.tags
        /\ CustomAttrs \subseteq info.attrs
        /\ \A k \in info.attrs : ~Reserved(k)

\* C12 as the code has it: the record always has both keys, holds only
\* hyphenated names and no name starting with aria- or data-. With
\* BeautifulSoup every custom element and attribute name is in it. Without
\* BeautifulSoup it is sure to hold only a custom element whose name is
\* plain, and a custom attribute whose name is plain and which is written
\* name="value".
C12_ExtractedWithParserOrPlainNames ==
    epc = "returned" =>
        /\ DOMAIN info = {"tags", "attrs"}
        /\ \A t \in info.tags : HasHyphen(t)
        /\ \A k \in info.attrs : HasHyphen(k) /\ ~Reserved(k)
        /\ haveBs4 => /\ info.tags = CustomTags
                      /\ info.attrs = CustomAttrs
        /\ ~haveBs4 =>
              /\ {t \in CustomTags : PlainName(t)} \subseteq info.tags
              /\ \A i \in DOMAIN html : \A a \in html[i].attrs :
                    (/\ a.form = "dq"
                     /\ PlainName(a.name)
                     /\ HasHyphen(a.name)
                     /\ ~Reserved(a.name)) => a.name \in info.attrs

\* The document of the test, <my-widget data-info="x"> and
\* <div custom-attr="1">, extracted without BeautifulSoup.
C12_Witness ==
    /\ epc = "returned"
    /\ ~haveBs4
    /\ Len(html) = 2
    /\ html[1] = [tag |-> <<"my", "-", "widget">>,
                  attrs |-> {[name |-> <<"data", "-", "info">>, form |-> "dq"]}]
    /\ html[2] = [tag |-> <<"div">>,
                  attrs |-> {[name |-> <<"custom", "-", "attr">>, form |-> "dq"]}]
    /\ info = [tags |-> {<<"my", "-", "widget">>},
               attrs |-> {<<"custom", "-", "attr">>}]

\* The same document extracted with BeautifulSoup.
C12_WitnessParser ==
    /\ epc = "returned"
    /\ haveBs4
    /\ Len(html) = 2
    /\ html[1].tag = <<"my", "-", "widget">>
    /\ \E a \in html[2].attrs : a.name = <<"custom", "-", "attr">> /\ a.form = "sq"
    /\ <<"my", "-", "widget">> \in info.tags
    /\ <<"custom", "-", "attr">> \in info.attrs
\* C21: with a thread limit C <= 0 main joins every thread right after
\* starting it: its list never holds more than one thread, at most one
\* probe is in flight, a port is started only when the probes of all
\* smaller ports of the range have ended, and a run that completes has
\* probed every port of the range once.
C21_NonPositiveLimitScansOneByOne ==
    threads <= 0 =>
        /\ Len(thread_list) <= 1
        /\ Cardinality(ProbesInFlight) <= 1
        /\ \A p, q \in PortRange :
              (p < q /\ started[q] >= 1) => pc[p] = "finished"
        /\ \A p \in Ports : started[p] = 0 \/ (started[p] = 1 /\ p \in PortRange)
        /\ mainpc = "done" =>
              \A p \in PortRange : started[p] = 1 /\ pc[p] = "finished"

\* A completed run with C <= 0 over several ports, one of them open.
C21_Witness ==
    /\ threads <= 0
    /\ mainpc = "done"
    /\ Cardinality(PortRange) >= 2
    /\ \A p \in PortRange : started[p] = 1
    /\ ReportedOpen # {}

\* With C <= 0 a probe runs while an earlier port has been probed and a
\* later one is still to come.
C21_WitnessMidRun ==
    /\ threads <= 0
    /\ \E p, q, r \in PortRange :
          /\ p < q /\ q < r
          /\ pc[p] = "finished" /\ InFlight(q) /\ started[r] = 0
\* STATUS says that a scan is over.
ScanOver == STATUS \in {"completed", "error"}

\* The background threads that exist.
BackgroundThreads == {i \in Requests : wpc[i] # "none"}

\* C22: STATUS starts as 'idle' and is changed only by a POST with URLs
\* (to 'queued', with exactly one new thread) and by the threads; a POST
\* whose URL text is blank starts no thread and leaves STATUS as it is; and
\* whenever STATUS is 'running' it is eventually 'completed' or 'error'.
C22_StatusReachesCompletedOrError ==
    /\ (handled = 0 /\ BackgroundThreads = {}) => STATUS = "idle"
    /\ [][/\ (handled' # handled /\ lastRequest' = "post_blank") =>
                (STATUS' = STATUS /\ wpc' = wpc /\ SCAN_THREAD' = SCAN_THREAD)
          /\ (handled' # handled /\ lastRequest' = "post_urls") =>
                /\ STATUS' = "queued"
                /\ \E i \in Requests \ BackgroundThreads :
                      /\ BackgroundThreads' = BackgroundThreads \cup {i}
                      /\ SCAN_THREAD' = i]_vars
    /\ [](STATUS = "running" => <>ScanOver)

\* C22 without its last part: what index() does with a request.
C22_RequestsQueueOrChangeNothing ==
    [][/\ (handled' # handled /\ lastRequest' \in {"post_blank", "get"}) =>
             (STATUS' = STATUS /\ wpc' = wpc /\ SCAN_THREAD' = SCAN_THREAD)
       /\ (handled' # handled /\ lastRequest' = "post_urls") =>
             /\ STATUS' = "queued"
             /\ \E i \in Requests \ BackgroundThreads :
                   /\ BackgroundThreads' = BackgroundThreads \cup {i}
                   /\ SCAN_THREAD' = i]_vars

\* The last part of C22 for a server whose own command line has a valid -i.
C22_EndsWhenArgvHasInput ==
    argvHasInput => [](STATUS = "running" => <>ScanOver)

\* Every background thread has ended and STATUS still says 'running'.
C22_RunningWithNoThreadLeft ==
    /\ STATUS = "running"
    /\ BackgroundThreads # {}
    /\ \A i \in BackgroundThreads : wpc[i] = "ended_exit"
====
